---- MODULE Spec2Model ----
(***************************************************************************)
(* babel-plugin-idx: the compile-time rewrite of idx(base, x => x.a.b())    *)
(* into a chain of guarded conditional expressions.                        *)
(*                                                                         *)
(* Syntax tree nodes are records with a `type` field, as in Babel.  The    *)
(* compilation unit is the sequence of its call expressions in traversal   *)
(* order.  Base expressions, property names and call arguments are opaque  *)
(* identifiers: the plugin passes them through untouched.  An idx call     *)
(* nested in the base or in an argument of another idx call is not         *)
(* modelled.                                                               *)
(***************************************************************************)
EXTENDS Integers, Sequences, FiniteSets, TLC

(***************************************************************************)
(* Bounds of the model.                                                    *)
(***************************************************************************)
\* longest property/method chain of a lambda body in the single-site units
MaxLinks == 2
\* most call sites of a multi-site unit
MaxSites == 3

(***************************************************************************)
(* Node builders and type tests (context.types).                           *)
(***************************************************************************)
Identifier(name) ==
  [type |-> "Identifier", name |-> name]

NullLiteral ==
  [type |-> "NullLiteral"]

ThisExpression ==
  [type |-> "ThisExpression"]

AssignmentExpression(operator, left, right) ==
  [type |-> "AssignmentExpression", operator |-> operator,
   left |-> left, right |-> right]

BinaryExpression(operator, left, right) ==
  [type |-> "BinaryExpression", operator |-> operator,
   left |-> left, right |-> right]

ConditionalExpression(test, consequent, alternate) ==
  [type |-> "ConditionalExpression", test |-> test,
   consequent |-> consequent, alternate |-> alternate]

CallExpression(callee, arguments) ==
  [type |-> "CallExpression", callee |-> callee, arguments |-> arguments]

MemberExpression(object, property, computed) ==
  [type |-> "MemberExpression", object |-> object,
   property |-> property, computed |-> computed]

ArrowFunctionExpression(params, body) ==
  [type |-> "ArrowFunctionExpression", params |-> params, body |-> body]

FunctionExpression(params, body) ==
  [type |-> "FunctionExpression", params |-> params, body |-> body]

BlockStatement ==
  [type |-> "BlockStatement"]

ObjectPattern(name) ==
  [type |-> "ObjectPattern", name |-> name]

ExpressionTypes ==
  {"Identifier", "NullLiteral", "ThisExpression", "AssignmentExpression",
   "BinaryExpression", "ConditionalExpression", "CallExpression",
   "MemberExpression", "ArrowFunctionExpression", "FunctionExpression"}

isCallExpression(node) == node.type = "CallExpression"

isMemberExpression(node) == node.type = "MemberExpression"

isIdentifier(node) == node.type = "Identifier"

isArrowFunctionExpression(node) == node.type = "ArrowFunctionExpression"

isExpression(node) == node.type \in ExpressionTypes

(***************************************************************************)
(* scope.generateUidIdentifier('ref'): the name of the i-th identifier the *)
(* scope hands out (_ref, _ref2, _ref3, ...).                              *)
(***************************************************************************)
generateUid(i) ==
  IF i = 1 THEN "_ref" ELSE "_ref" \o ToString(i)

(***************************************************************************)
(* class TransformedTernary.  deepestTernary is a reference to a node      *)
(* inside `expression`; it is kept as the path of field names leading to   *)
(* that node.  generateUid is the bound generator of the scope, kept as    *)
(* the number of names it has handed out.                                  *)
(***************************************************************************)
NullRef == [isNull |-> TRUE, path |-> <<>>]

Ref(path) == [isNull |-> FALSE, path |-> path]

RECURSIVE AssignAt(_, _, _, _)
\* the tree `node` after `target.field = value`, target being the node at path
AssignAt(node, path, field, value) ==
  IF path = <<>>
    THEN [node EXCEPT ![field] = value]
    ELSE [node EXCEPT ![Head(path)] = AssignAt(node[Head(path)], Tail(path), field, value)]

NewTransformedTernary(expression, uidsIssued) ==
  [generateUid |-> uidsIssued,
   uids |-> <<>>,
   expression |-> expression,
   deepestTernary |-> NullRef,
   deepestExpression |-> expression]

\* mutant: a strict test, which lets undefined through
TT_constructTernaryStrict(oldExpression, newExpression, uid) ==
  ConditionalExpression(
    BinaryExpression("!==",
                     AssignmentExpression("=", Identifier(uid), oldExpression),
                     NullLiteral),
    newExpression,
    Identifier(uid))

\* mutant: the fallback branch repeats the guarded expression
TT_constructTernaryRepeat(oldExpression, newExpression, uid) ==
  ConditionalExpression(
    BinaryExpression("!=",
                     AssignmentExpression("=", Identifier(uid), oldExpression),
                     NullLiteral),
    newExpression,
    oldExpression)

TT_constructTernary(oldExpression, newExpression, uid) ==
  ConditionalExpression(
    BinaryExpression("!=",
                     AssignmentExpression("=", Identifier(uid), oldExpression),
                     NullLiteral),
    newExpression,
    Identifier(uid))

\* mutant: the new guard is spliced into the alternate of the previous one
addLevelIntoAlternate(this, expression, uid) ==
  LET ternary == TT_constructTernary(this.deepestExpression, expression, uid)
  IN  IF this.deepestTernary.isNull
        THEN [this EXCEPT !.expression = ternary,
                          !.deepestTernary = Ref(<<>>),
                          !.deepestExpression = expression]
        ELSE [this EXCEPT !.expression =
                            AssignAt(this.expression, this.deepestTernary.path,
                                     "alternate", ternary),
                          !.deepestTernary =
                            Ref(Append(this.deepestTernary.path, "alternate")),
                          !.deepestExpression = expression]

addLevel(this, expression, uid) ==
  LET ternary == TT_constructTernary(this.deepestExpression, expression, uid)
  IN  IF this.deepestTernary.isNull
        THEN [this EXCEPT !.expression = ternary,
                          !.deepestTernary = Ref(<<>>),
                          !.deepestExpression = expression]
        ELSE [this EXCEPT !.expression =
                            AssignAt(this.expression, this.deepestTernary.path,
                                     "consequent", ternary),
                          !.deepestTernary =
                            Ref(Append(this.deepestTernary.path, "consequent")),
                          !.deepestExpression = expression]

\* mutant: the call is made on the previous value, not on the temporary
appendMethodCallOnPrevious(this, args) ==
  LET uid == generateUid(this.generateUid + 1)
      callExpression == CallExpression(this.deepestExpression, args)
      issued == [this EXCEPT !.generateUid = this.generateUid + 1]
      levelled == addLevel(issued, callExpression, uid)
  IN  [levelled EXCEPT !.uids = Append(levelled.uids, uid)]

appendMethodCall(this, args) ==
  LET uid == generateUid(this.generateUid + 1)
      callExpression == CallExpression(Identifier(uid), args)
      issued == [this EXCEPT !.generateUid = this.generateUid + 1]
      levelled == addLevel(issued, callExpression, uid)
  IN  [levelled EXCEPT !.uids = Append(levelled.uids, uid)]

\* mutant: the access is made on the previous value, not on the temporary
appendPropertyAccessOnPrevious(this, property, computed) ==
  LET uid == generateUid(this.generateUid + 1)
      accessedProperty == MemberExpression(this.deepestExpression, property, computed)
      issued == [this EXCEPT !.generateUid = this.generateUid + 1]
      levelled == addLevel(issued, accessedProperty, uid)
  IN  [levelled EXCEPT !.uids = Append(levelled.uids, uid)]

\* mutant: the temporary is not recorded in uids
appendPropertyAccessNoPush(this, property, computed) ==
  LET uid == generateUid(this.generateUid + 1)
      accessedProperty == MemberExpression(Identifier(uid), property, computed)
      issued == [this EXCEPT !.generateUid = this.generateUid + 1]
  IN  addLevel(issued, accessedProperty, uid)

appendPropertyAccess(this, property, computed) ==
  LET uid == generateUid(this.generateUid + 1)
      accessedProperty == MemberExpression(Identifier(uid), property, computed)
      issued == [this EXCEPT !.generateUid = this.generateUid + 1]
      levelled == addLevel(issued, accessedProperty, uid)
  IN  [levelled EXCEPT !.uids = Append(levelled.uids, uid)]

(***************************************************************************)
(* The module-level functions.  buildCodeFrameError(node, message) is the  *)
(* record of the node and the message; NoError is a normal return.  The    *)
(* messages are the source's, without the quotes around idx.               *)
(***************************************************************************)
NoError == [thrown |-> FALSE, node |-> NullLiteral, message |-> ""]

buildCodeFrameError(node, message) ==
  [thrown |-> TRUE, node |-> node, message |-> message]

MsgArity == "The idx function takes exactly two arguments."

MsgNotArrow == "The second argument supplied to idx must be an arrow function."

MsgBody == "The body of the arrow function supplied to idx must be a single expression (without curly braces)."

MsgParams == "The arrow function supplied to idx must take exactly one parameter."

MsgMismatch == "The parameter of the arrow function supplied to idx must match the base of the body expression."

RECURSIVE getExpressionChainBase(_)
getExpressionChainBase(node) ==
  IF isCallExpression(node) THEN getExpressionChainBase(node.callee)
  ELSE IF isMemberExpression(node) THEN getExpressionChainBase(node.object)
  ELSE node

\* mutant: any call of a bare identifier counts
isIdxCallAnyName(node) ==
  /\ isCallExpression(node)
  /\ isIdentifier(node.callee)

isIdxCall(node) ==
  /\ isCallExpression(node)
  /\ isIdentifier(node.callee)
  /\ node.callee.name = "idx"

\* mutant: the parameter count is checked before the body
checkIdxArgumentsParamsFirst(node) ==
  LET args == node.arguments
      arrowFunction == args[2]
      bodyChainBase == getExpressionChainBase(arrowFunction.body)
  IN  IF Len(args) # 2
        THEN buildCodeFrameError(node, MsgArity)
      ELSE IF ~isArrowFunctionExpression(arrowFunction)
        THEN buildCodeFrameError(arrowFunction, MsgNotArrow)
      ELSE IF Len(arrowFunction.params) # 1
        THEN buildCodeFrameError(
               IF Len(arrowFunction.params) >= 3
                 THEN arrowFunction.params[3] ELSE arrowFunction,
               MsgParams)
      ELSE IF ~isExpression(arrowFunction.body)
        THEN buildCodeFrameError(arrowFunction.body, MsgBody)
      ELSE IF \/ ~isIdentifier(arrowFunction.params[1])
              \/ ~isIdentifier(bodyChainBase)
              \/ arrowFunction.params[1].name # bodyChainBase.name
        THEN buildCodeFrameError(arrowFunction.params[1], MsgMismatch)
      ELSE NoError

checkIdxArguments(node) ==
  LET args == node.arguments
      arrowFunction == args[2]
      bodyChainBase == getExpressionChainBase(arrowFunction.body)
  IN  IF Len(args) # 2
        THEN buildCodeFrameError(node, MsgArity)
      ELSE IF ~isArrowFunctionExpression(arrowFunction)
        THEN buildCodeFrameError(arrowFunction, MsgNotArrow)
      ELSE IF ~isExpression(arrowFunction.body)
        THEN buildCodeFrameError(arrowFunction.body, MsgBody)
      ELSE IF Len(arrowFunction.params) # 1
        THEN buildCodeFrameError(
               IF Len(arrowFunction.params) >= 3
                 THEN arrowFunction.params[3] ELSE arrowFunction,
               MsgParams)
      ELSE IF \/ ~isIdentifier(arrowFunction.params[1])
              \/ ~isIdentifier(bodyChainBase)
              \/ arrowFunction.params[1].name # bodyChainBase.name
        THEN buildCodeFrameError(arrowFunction.params[1], MsgMismatch)
      ELSE NoError

RECURSIVE constructTernary(_, _, _)
constructTernary(base, node, uidsIssued) ==
  IF isCallExpression(node)
    THEN appendMethodCall(constructTernary(base, node.callee, uidsIssued),
                          node.arguments)
  ELSE IF isMemberExpression(node)
    THEN appendPropertyAccess(constructTernary(base, node.object, uidsIssued),
                              node.property, node.computed)
  ELSE NewTransformedTernary(base, uidsIssued)

(***************************************************************************)
(* idxVisitor.CallExpression for one call node, given the number of names  *)
(* the scope has handed out: the thrown error if any, the node that stands *)
(* at the call's place afterwards, ternary.uids, and the generator's new   *)
(* count.                                                                  *)
(***************************************************************************)
\* mutant: a temporary is minted and declared before the arguments are checked
CallExpressionVisitorMintFirst(node, uidsIssued) ==
  IF isIdxCall(node)
    THEN LET error == checkIdxArguments(node)
         IN  IF error.thrown
               THEN [error |-> error, replaced |-> FALSE, node |-> node,
                     uids |-> <<generateUid(uidsIssued + 1)>>,
                     uidsIssued |-> uidsIssued + 1]
               ELSE LET ternary == constructTernary(node.arguments[1],
                                                    node.arguments[2].body,
                                                    uidsIssued)
                    IN  [error |-> NoError, replaced |-> TRUE,
                         node |-> ternary.expression,
                         uids |-> ternary.uids,
                         uidsIssued |-> ternary.generateUid]
    ELSE [error |-> NoError, replaced |-> FALSE, node |-> node,
          uids |-> <<>>, uidsIssued |-> uidsIssued]

CallExpressionVisitor(node, uidsIssued) ==
  IF isIdxCall(node)
    THEN LET error == checkIdxArguments(node)
         IN  IF error.thrown
               THEN [error |-> error, replaced |-> FALSE, node |-> node,
                     uids |-> <<>>, uidsIssued |-> uidsIssued]
               ELSE LET ternary == constructTernary(node.arguments[1],
                                                    node.arguments[2].body,
                                                    uidsIssued)
                    IN  [error |-> NoError, replaced |-> TRUE,
                         node |-> ternary.expression,
                         uids |-> ternary.uids,
                         uidsIssued |-> ternary.generateUid]
    ELSE [error |-> NoError, replaced |-> FALSE, node |-> node,
          uids |-> <<>>, uidsIssued |-> uidsIssued]

\* for (ii ...) path.scope.push({id: t.Identifier(uid)})
scopePush(bindings, uids) == bindings \o uids

(***************************************************************************)
(* path.traverse(idxVisitor, state) after the visit of site `cursor` of    *)
(* `count`: a thrown error leaves the traversal (nothing catches it), a    *)
(* normal return moves to the next call expression.                        *)
(***************************************************************************)
\* mutant: the traversal goes on after an error
traverseNextSwallow(error, cursor, count) ==
  IF cursor = count THEN [pc |-> "Done", cursor |-> cursor + 1]
  ELSE [pc |-> "Traverse", cursor |-> cursor + 1]

traverseNext(error, cursor, count) ==
  IF error.thrown THEN [pc |-> "Thrown", cursor |-> cursor]
  ELSE IF cursor = count THEN [pc |-> "Done", cursor |-> cursor + 1]
  ELSE [pc |-> "Traverse", cursor |-> cursor + 1]

\* the condition of the Program visitor's fast exit
programNeedsTraversal(ownBinding, codeMatches) == ownBinding \/ codeMatches

(***************************************************************************)
(* The inputs: call sites.                                                 *)
(***************************************************************************)
PropertyAccess(property, computed) ==
  [kind |-> "PropertyAccess", property |-> property,
   computed |-> computed, arguments |-> <<>>]

MethodCall(arguments) ==
  [kind |-> "MethodCall", property |-> NullLiteral,
   computed |-> FALSE, arguments |-> arguments]

Links ==
  {PropertyAccess(Identifier("b"), FALSE), PropertyAccess(Identifier("c"), FALSE),
   PropertyAccess(Identifier("k"), TRUE),
   MethodCall(<<>>), MethodCall(<<Identifier("arg")>>)}

\* the node a link makes of the node it is applied to
LinkNode(node, link) ==
  IF link.kind = "PropertyAccess"
    THEN MemberExpression(node, link.property, link.computed)
    ELSE CallExpression(node, link.arguments)

RECURSIVE ChainNode(_, _)
\* the expression root.l1.l2...ln
ChainNode(root, links) ==
  IF links = <<>> THEN root
  ELSE LinkNode(ChainNode(root, SubSeq(links, 1, Len(links) - 1)),
                links[Len(links)])

Chains == UNION {[1..n -> Links] : n \in 0..MaxLinks}

Base == Identifier("a")

Roots == {Identifier("x"), ThisExpression}

Bodies == {BlockStatement} \cup {ChainNode(r, c) : r \in Roots, c \in Chains}

ParamLists ==
  {<<>>, <<Identifier("x")>>, <<Identifier("y")>>, <<ObjectPattern("x")>>,
   <<Identifier("x"), Identifier("y")>>,
   <<Identifier("x"), Identifier("y"), Identifier("z")>>}

SecondArguments ==
  {ArrowFunctionExpression(ps, b) : ps \in ParamLists, b \in Bodies}
    \cup {FunctionExpression(ps, BlockStatement) : ps \in ParamLists}
    \cup {Identifier("f")}

ArgumentLists ==
  {<<>>, <<Base>>}
    \cup {<<Base, f>> : f \in SecondArguments}
    \cup {<<Base, f, Identifier("extra")>> : f \in SecondArguments}

Callees ==
  {Identifier("idx"), Identifier("foo"),
   MemberExpression(Identifier("obj"), Identifier("idx"), FALSE)}

\* every call site of the bounded shapes
AllSites == {CallExpression(c, args) : c \in Callees, args \in ArgumentLists}

\* the links l1..ln of the canonical chain x.b(arg)[k]()...
CanonicalChain(n) ==
  [i \in 1..n |->
     CASE i % 4 = 1 -> PropertyAccess(Identifier("b"), FALSE)
       [] i % 4 = 2 -> MethodCall(<<Identifier("arg")>>)
       [] i % 4 = 3 -> PropertyAccess(Identifier("k"), TRUE)
       [] OTHER     -> MethodCall(<<>>)]

Arrow1(param, body) == ArrowFunctionExpression(<<Identifier(param)>>, body)

XB == ChainNode(Identifier("x"), <<PropertyAccess(Identifier("b"), FALSE)>>)

\* the call sites the multi-site units are made of: transformable sites of
\* every chain length, one site per error, and calls that are no idx call
UnitSites ==
  {CallExpression(Identifier("idx"),
                  <<Base, Arrow1("x", ChainNode(Identifier("x"), CanonicalChain(n)))>>)
     : n \in 0..MaxLinks}
  \cup
  {CallExpression(Identifier("idx"), <<Base>>),
   CallExpression(Identifier("idx"), <<Base, Identifier("f")>>),
   CallExpression(Identifier("idx"), <<Base, Arrow1("x", BlockStatement)>>),
   CallExpression(Identifier("idx"),
     <<Base, ArrowFunctionExpression(<<Identifier("x"), Identifier("y")>>, XB)>>),
   CallExpression(Identifier("idx"), <<Base, Arrow1("y", XB)>>),
   CallExpression(Identifier("foo"), <<Base, Arrow1("x", XB)>>),
   CallExpression(MemberExpression(Identifier("obj"), Identifier("idx"), FALSE),
                  <<Base, Arrow1("x", XB)>>),
   CallExpression(Identifier("foo"), <<Base>>)}

Units == UNION {[1..n -> UnitSites] : n \in 0..MaxSites}

(***************************************************************************)
(* Running a rewritten expression.  Values are symbolic: a value is the    *)
(* path of links that produced it from the base, and the world says, for   *)
(* each depth of the chain, whether the value there is an object, null or  *)
(* undefined (world[d + 1] for depth d).  The trace lists the base and the *)
(* links in the order they are evaluated.  An error ends the evaluation.   *)
(***************************************************************************)
ValueKinds == {"object", "null", "undefined"}

Worlds(n) == [1..(n + 1) -> ValueKinds]

Value(kind, path) == [kind |-> kind, path |-> path]

Undefined == Value("undefined", <<>>)

IsNullish(v) == v.kind \in {"null", "undefined"}

IsError(v) == v.kind \in {"TypeError", "ReferenceError"}

IsTruthy(v) == v.kind \in {"true", "object"}

BaseEvent == [kind |-> "Base", property |-> Base, computed |-> FALSE, arguments |-> <<>>]

\* the value of applying `link` to the non-nullish value v
ApplyLink(v, link, world) ==
  LET path == Append(v.path, link)
  IN  Value(IF Len(path) + 1 \in DOMAIN world THEN world[Len(path) + 1] ELSE "object",
            path)

\* a != b and a !== b on these values
Compare(operator, a, b) ==
  LET looseEq == (IsNullish(a) /\ IsNullish(b)) \/ a = b
      strictEq == (a.kind = b.kind /\ IsNullish(a)) \/ a = b
      truth == IF operator = "!=" THEN ~looseEq ELSE ~strictEq
  IN  Value(IF truth THEN "true" ELSE "false", <<>>)

Outcome(value, store, trace) == [value |-> value, store |-> store, trace |-> trace]

RECURSIVE Evaluate(_, _, _, _)
Evaluate(node, store, trace, world) ==
  CASE node.type = "Identifier" ->
         IF node.name \in DOMAIN store
           THEN Outcome(store[node.name], store, trace)
         ELSE IF node = Base
           THEN Outcome(Value(world[1], <<>>), store, Append(trace, BaseEvent))
         ELSE Outcome(Value("ReferenceError", <<>>), store, trace)
    [] node.type = "NullLiteral" ->
         Outcome(Value("null", <<>>), store, trace)
    [] node.type = "AssignmentExpression" ->
         LET r == Evaluate(node.right, store, trace, world)
         IN  IF IsError(r.value) THEN r
             ELSE IF node.left.name \notin DOMAIN r.store
               THEN Outcome(Value("ReferenceError", <<>>), r.store, r.trace)
             ELSE Outcome(r.value, [r.store EXCEPT ![node.left.name] = r.value], r.trace)
    [] node.type = "BinaryExpression" ->
         LET l == Evaluate(node.left, store, trace, world)
         IN  IF IsError(l.value) THEN l
             ELSE LET r == Evaluate(node.right, l.store, l.trace, world)
                  IN  IF IsError(r.value) THEN r
                      ELSE Outcome(Compare(node.operator, l.value, r.value),
                                   r.store, r.trace)
    [] node.type = "ConditionalExpression" ->
         LET t == Evaluate(node.test, store, trace, world)
         IN  IF IsError(t.value) THEN t
             ELSE IF IsTruthy(t.value)
               THEN Evaluate(node.consequent, t.store, t.trace, world)
               ELSE Evaluate(node.alternate, t.store, t.trace, world)
    [] node.type = "MemberExpression" ->
         LET o == Evaluate(node.object, store, trace, world)
             link == PropertyAccess(node.property, node.computed)
         IN  IF IsError(o.value) THEN o
             ELSE IF o.value.kind # "object"
               THEN Outcome(Value("TypeError", <<>>), o.store, o.trace)
             ELSE Outcome(ApplyLink(o.value, link, world), o.store,
                          Append(o.trace, link))
    [] node.type = "CallExpression" ->
         LET f == Evaluate(node.callee, store, trace, world)
             link == MethodCall(node.arguments)
         IN  IF IsError(f.value) THEN f
             ELSE IF f.value.kind # "object"
               THEN Outcome(Value("TypeError", <<>>), f.store, f.trace)
             ELSE Outcome(ApplyLink(f.value, link, world), f.store,
                          Append(f.trace, link))
    [] OTHER -> Outcome(Value("TypeError", <<>>), store, trace)

\* the declared bindings, all undefined before the expression runs
InitialStore(bindings) ==
  [name \in {bindings[i] : i \in 1..Len(bindings)} |-> Undefined]

NoRun ==
  [active |-> FALSE, site |-> 0, world |-> <<>>, value |-> Undefined, trace |-> <<>>]

(***************************************************************************)
(* The state.                                                              *)
(***************************************************************************)
VARIABLES
  source,       \* the unit as parsed: its call expressions in traversal order
  tree,         \* the unit now: the node at each call expression's place
  ownBinding,   \* path.scope.getOwnBinding('idx') is truthy
  codeMatches,  \* idxRe.test(state.file.code)
  pc,           \* "Program", "Traverse", "Done", "Skipped", "Thrown"
  cursor,       \* the call expression the traversal visits next
  uidsIssued,   \* how many names the scope's generator has handed out
  bindings,     \* the names pushed to the scope, in order
  error,        \* the error thrown out of the plugin, and the site it is for
  visits,       \* per site: what its visit did (replaced, ternary.uids)
  run           \* the evaluation of a rewritten expression, once it has run

vars ==
  <<source, tree, ownBinding, codeMatches, pc, cursor, uidsIssued, bindings,
    error, visits, run>>

NoVisit == [visited |-> FALSE, replaced |-> FALSE, uids |-> <<>>]

\* ownBinding and codeMatches are the host's answers; the source text need
\* not spell idx where the tree has it (an escaped name, a tree given
\* without its text), so both are free
InitOf(unit) ==
  /\ source = unit
  /\ tree = unit
  /\ ownBinding \in BOOLEAN
  /\ codeMatches \in BOOLEAN
  /\ pc = "Program"
  /\ cursor = 1
  /\ uidsIssued = 0
  /\ bindings = <<>>
  /\ error = [thrown |-> FALSE, site |-> 0, node |-> NullLiteral, message |-> ""]
  /\ visits = [i \in 1..Len(unit) |-> NoVisit]
  /\ run = NoRun

\* a unit of up to MaxSites call sites
Init == \E unit \in Units : InitOf(unit)

\* a unit of one call site of any of the bounded shapes
InitSite == \E site \in AllSites : InitOf(<<site>>)

(***************************************************************************)
(* visitor.Program: the fast exit, or the start of the traversal.          *)
(***************************************************************************)
Program ==
  /\ pc = "Program"
  /\ pc' = IF programNeedsTraversal(ownBinding, codeMatches)
             THEN (IF Len(tree) = 0 THEN "Done" ELSE "Traverse")
             ELSE "Skipped"
  /\ UNCHANGED <<source, tree, ownBinding, codeMatches, cursor, uidsIssued,
                 bindings, error, visits, run>>

(***************************************************************************)
(* idxVisitor.CallExpression on the next call expression of the traversal. *)
(***************************************************************************)
CallExpressionVisit ==
  /\ pc = "Traverse"
  /\ cursor \in 1..Len(tree)
  /\ LET r == CallExpressionVisitor(tree[cursor], uidsIssued)
         next == traverseNext(r.error, cursor, Len(tree))
     IN  /\ tree' = [tree EXCEPT ![cursor] = r.node]
         /\ uidsIssued' = r.uidsIssued
         /\ bindings' = scopePush(bindings, r.uids)
         /\ error' = IF r.error.thrown
                       THEN [thrown |-> TRUE, site |-> cursor,
                             node |-> r.error.node, message |-> r.error.message]
                       ELSE error
         /\ visits' = [visits EXCEPT ![cursor] =
                         [visited |-> TRUE, replaced |-> r.replaced, uids |-> r.uids]]
         /\ pc' = next.pc
         /\ cursor' = next.cursor
  /\ UNCHANGED <<source, ownBinding, codeMatches, run>>

(***************************************************************************)
(* The compiled unit runs: one rewritten expression is evaluated in some   *)
(* world, with the pushed bindings declared and not yet assigned.          *)
(***************************************************************************)
RunExpression ==
  /\ pc = "Done"
  /\ ~run.active
  /\ \E i \in 1..Len(tree) :
       /\ visits[i].replaced
       /\ \E world \in Worlds(Len(visits[i].uids)) :
            LET r == Evaluate(tree[i], InitialStore(bindings), <<>>, world)
            IN  run' = [active |-> TRUE, site |-> i, world |-> world,
                        value |-> r.value, trace |-> r.trace]
  /\ UNCHANGED <<source, tree, ownBinding, codeMatches, pc, cursor, uidsIssued,
                 bindings, error, visits>>

Next == Program \/ CallExpressionVisit \/ RunExpression

Spec == Init /\ [][Next]_vars

SpecSite == InitSite /\ [][Next]_vars

(***************************************************************************)
(* What the claims speak of: the chain of a lambda body, read off the      *)
(* parsed source, and the safe-navigation meaning of a chain.              *)
(***************************************************************************)
RECURSIVE LinksOf(_)
\* the links of a body, from the one nearest the root to the outermost
LinksOf(body) ==
  IF body.type = "CallExpression"
    THEN Append(LinksOf(body.callee), MethodCall(body.arguments))
  ELSE IF body.type = "MemberExpression"
    THEN Append(LinksOf(body.object), PropertyAccess(body.property, body.computed))
  ELSE <<>>

SiteBase(i) == source[i].arguments[1]

SiteLinks(i) == LinksOf(source[i].arguments[2].body)

Replaced == {i \in 1..Len(tree) : visits[i].replaced}

RECURSIVE SafeNavigation(_, _, _)
\* the chain applied to v, stopping at the first nullish value
SafeNavigation(v, links, world) ==
  IF links = <<>> \/ IsNullish(v) THEN v
  ELSE SafeNavigation(ApplyLink(v, Head(links), world), Tail(links), world)

RECURSIVE LinksEvaluated(_, _, _)
\* the links safe navigation evaluates, in order
LinksEvaluated(v, links, world) ==
  IF links = <<>> \/ IsNullish(v) THEN <<>>
  ELSE <<Head(links)>>
         \o LinksEvaluated(ApplyLink(v, Head(links), world), Tail(links), world)

RunBaseValue == Value(run.world[1], <<>>)

(***************************************************************************)
(* C1.  Evaluating the built expression gives the safe-navigation result:  *)
(* the first nullish value among the base and the non-final links' values  *)
(* (null and undefined alike), with no later link evaluated, and otherwise *)
(* the value of the whole chain applied to the base.                       *)
(***************************************************************************)
C1_SafeNavigationResult ==
  run.active =>
    /\ run.value = SafeNavigation(RunBaseValue, SiteLinks(run.site), run.world)
    /\ IsNullish(run.value) /\ Len(run.value.path) < Len(SiteLinks(run.site))
         => Len(run.trace) = Len(run.value.path) + 1

\* a two-link chain whose first link gives undefined: the result is that
\* undefined and the second link is not evaluated
C1_Witness ==
  /\ run.active
  /\ Len(SiteLinks(run.site)) = 2
  /\ run.world[1] = "object"
  /\ run.world[2] = "undefined"
  /\ run.value = Value("undefined", <<SiteLinks(run.site)[1]>>)

(***************************************************************************)
(* C2.  The built expression is the right-nested guard chain G1 with       *)
(* Gi = (ti = Vi-1) != null ? Gi+1 : ti, V0 the base, Vi the i-th link     *)
(* applied to ti, and GN+1 = VN: each guard sits in the consequent of the  *)
(* one before it.                                                          *)
(***************************************************************************)
RECURSIVE GuardChain(_, _, _, _)
GuardChain(previous, links, temps, i) ==
  IF i > Len(links) THEN previous
  ELSE ConditionalExpression(
         BinaryExpression("!=",
                          AssignmentExpression("=", Identifier(temps[i]), previous),
                          NullLiteral),
         GuardChain(LinkNode(Identifier(temps[i]), links[i]), links, temps, i + 1),
         Identifier(temps[i]))

C2_RightNestedGuards ==
  \A i \in Replaced :
    /\ Len(visits[i].uids) = Len(SiteLinks(i))
    /\ tree[i] = GuardChain(SiteBase(i), SiteLinks(i), visits[i].uids, 1)

\* idx(a, x => x.b.c) has become (_ref = a) != null ? ((_ref2 = _ref.b) != null ? _ref2.c : _ref2) : _ref
C2_Witness ==
  \E i \in Replaced :
    /\ source[i].arguments[2].body =
         MemberExpression(MemberExpression(Identifier("x"), Identifier("b"), FALSE),
                          Identifier("c"), FALSE)
    /\ tree[i] =
         ConditionalExpression(
           BinaryExpression("!=",
             AssignmentExpression("=", Identifier("_ref"), Identifier("a")),
             NullLiteral),
           ConditionalExpression(
             BinaryExpression("!=",
               AssignmentExpression("=", Identifier("_ref2"),
                 MemberExpression(Identifier("_ref"), Identifier("b"), FALSE)),
               NullLiteral),
             MemberExpression(Identifier("_ref2"), Identifier("c"), FALSE),
             Identifier("_ref2")),
           Identifier("_ref"))

(***************************************************************************)
(* C3.  In every evaluation of the built expression the base is evaluated  *)
(* exactly once and first, and the links after it left to right, each one  *)
(* once, up to the link whose input is nullish; the links after a nullish  *)
(* value are not evaluated.                                                *)
(***************************************************************************)
C3_EvaluationOrder ==
  run.active =>
    run.trace = <<BaseEvent>>
                  \o LinksEvaluated(RunBaseValue, SiteLinks(run.site), run.world)

\* a two-link chain whose first link gives null: the base, then the first
\* link, and nothing else
C3_Witness ==
  /\ run.active
  /\ Len(SiteLinks(run.site)) = 2
  /\ run.world[2] = "null"
  /\ run.trace = <<BaseEvent, SiteLinks(run.site)[1]>>

(***************************************************************************)
(* C4.  Counting nodes of a built expression.                              *)
(***************************************************************************)
RECURSIVE SumOver(_, _, _)
RECURSIVE Occurrences(_, _)
\* the identifier nodes named `name` in `node`
Occurrences(name, node) ==
  CASE node.type = "Identifier" -> IF node.name = name THEN 1 ELSE 0
    [] node.type \in {"AssignmentExpression", "BinaryExpression"} ->
         Occurrences(name, node.left) + Occurrences(name, node.right)
    [] node.type = "ConditionalExpression" ->
         Occurrences(name, node.test) + Occurrences(name, node.consequent)
           + Occurrences(name, node.alternate)
    [] node.type = "MemberExpression" ->
         Occurrences(name, node.object) + Occurrences(name, node.property)
    [] node.type = "CallExpression" ->
         Occurrences(name, node.callee) + SumOver(name, node.arguments, 1)
    [] OTHER -> 0

SumOver(name, nodes, k) ==
  IF k > Len(nodes) THEN 0
  ELSE Occurrences(name, nodes[k]) + SumOver(name, nodes, k + 1)

RECURSIVE Conditionals(_)
\* the conditional expressions in `node` (arguments and properties hold none)
Conditionals(node) ==
  CASE node.type = "ConditionalExpression" ->
         1 + Conditionals(node.test) + Conditionals(node.consequent)
           + Conditionals(node.alternate)
    [] node.type \in {"AssignmentExpression", "BinaryExpression"} ->
         Conditionals(node.left) + Conditionals(node.right)
    [] node.type = "MemberExpression" -> Conditionals(node.object)
    [] node.type = "CallExpression" -> Conditionals(node.callee)
    [] OTHER -> 0

RECURSIVE AssignmentsTo(_, _)
\* the assignments in `node` whose target is `name`
AssignmentsTo(name, node) ==
  CASE node.type = "AssignmentExpression" ->
         (IF node.left = Identifier(name) THEN 1 ELSE 0)
           + AssignmentsTo(name, node.right)
    [] node.type = "BinaryExpression" ->
         AssignmentsTo(name, node.left) + AssignmentsTo(name, node.right)
    [] node.type = "ConditionalExpression" ->
         AssignmentsTo(name, node.test) + AssignmentsTo(name, node.consequent)
           + AssignmentsTo(name, node.alternate)
    [] node.type = "MemberExpression" -> AssignmentsTo(name, node.object)
    [] node.type = "CallExpression" -> AssignmentsTo(name, node.callee)
    [] OTHER -> 0

RECURSIVE FallbacksTo(_, _)
\* the conditionals in `node` whose alternate is the identifier `name`
FallbacksTo(name, node) ==
  CASE node.type = "ConditionalExpression" ->
         (IF node.alternate = Identifier(name) THEN 1 ELSE 0)
           + FallbacksTo(name, node.test) + FallbacksTo(name, node.consequent)
           + FallbacksTo(name, node.alternate)
    [] node.type \in {"AssignmentExpression", "BinaryExpression"} ->
         FallbacksTo(name, node.left) + FallbacksTo(name, node.right)
    [] node.type = "MemberExpression" -> FallbacksTo(name, node.object)
    [] node.type = "CallExpression" -> FallbacksTo(name, node.callee)
    [] OTHER -> 0

UidsOf(i) == {visits[i].uids[k] : k \in 1..Len(visits[i].uids)}

(***************************************************************************)
(* C4 as stated: N conditionals, N temporaries, and each temporary occurs  *)
(* exactly twice in the built expression.                                  *)
(***************************************************************************)
C4_AsStated ==
  \A i \in Replaced :
    /\ Conditionals(tree[i]) = Len(SiteLinks(i))
    /\ Len(visits[i].uids) = Len(SiteLinks(i))
    /\ \A u \in UidsOf(i) : Occurrences(u, tree[i]) = 2

(***************************************************************************)
(* C4 amended.  For a chain of length N the built expression holds exactly *)
(* N conditionals and N temporaries, and each temporary occurs exactly     *)
(* three times: once as an assignment target, once as the subject of its   *)
(* link (the object of the access or the callee), once as the fallback     *)
(* branch of its guard.                                                    *)
(***************************************************************************)
C4_ThreeOccurrences ==
  \A i \in Replaced :
    /\ Conditionals(tree[i]) = Len(SiteLinks(i))
    /\ Len(visits[i].uids) = Len(SiteLinks(i))
    /\ Cardinality(UidsOf(i)) = Len(SiteLinks(i))
    /\ \A u \in UidsOf(i) :
         /\ Occurrences(u, tree[i]) = 3
         /\ AssignmentsTo(u, tree[i]) = 1
         /\ FallbacksTo(u, tree[i]) = 1

\* a rewritten two-link chain: two conditionals, two temporaries
C4_Witness ==
  \E i \in Replaced :
    /\ Len(SiteLinks(i)) = 2
    /\ Conditionals(tree[i]) = 2
    /\ Cardinality(UidsOf(i)) = 2

(***************************************************************************)
(* C5.  Scenario B, idx(a, x => x.b()).                                    *)
(***************************************************************************)
ScenarioB ==
  CallExpression(Identifier("idx"),
    <<Identifier("a"),
      ArrowFunctionExpression(<<Identifier("x")>>,
        CallExpression(MemberExpression(Identifier("x"), Identifier("b"), FALSE),
                       <<>>))>>)

TempNames == {generateUid(n) : n \in 1..uidsIssued}

\* (t1 = a) != null ? t1.b != null ? (t2 = t1.b)() : t1.b : t1
ScenarioBAsStated(t1, t2) ==
  ConditionalExpression(
    BinaryExpression("!=",
      AssignmentExpression("=", Identifier(t1), Identifier("a")), NullLiteral),
    ConditionalExpression(
      BinaryExpression("!=",
        MemberExpression(Identifier(t1), Identifier("b"), FALSE), NullLiteral),
      CallExpression(
        AssignmentExpression("=", Identifier(t2),
          MemberExpression(Identifier(t1), Identifier("b"), FALSE)),
        <<>>),
      MemberExpression(Identifier(t1), Identifier("b"), FALSE)),
    Identifier(t1))

\* (t1 = a) != null ? (t2 = t1.b) != null ? t2() : t2 : t1
ScenarioBBuilt(t1, t2) ==
  ConditionalExpression(
    BinaryExpression("!=",
      AssignmentExpression("=", Identifier(t1), Identifier("a")), NullLiteral),
    ConditionalExpression(
      BinaryExpression("!=",
        AssignmentExpression("=", Identifier(t2),
          MemberExpression(Identifier(t1), Identifier("b"), FALSE)),
        NullLiteral),
      CallExpression(Identifier(t2), <<>>),
      Identifier(t2)),
    Identifier(t1))

(***************************************************************************)
(* C5 as stated: for base a and lambda x => x.b() the built expression is, *)
(* up to the fresh names, (t1 = a) != null ? t1.b != null ? (t2 = t1.b)()  *)
(* : t1.b : t1.                                                            *)
(***************************************************************************)
C5_AsStated ==
  \A i \in Replaced :
    source[i] = ScenarioB =>
      \E t1, t2 \in TempNames : tree[i] = ScenarioBAsStated(t1, t2)

(***************************************************************************)
(* C5 amended.  For base a and lambda x => x.b() the built expression is,  *)
(* up to the fresh names, (t1 = a) != null ? (t2 = t1.b) != null ? t2() :  *)
(* t2 : t1: the property access is guarded first, its value is kept in t2, *)
(* and the call is made on t2.                                             *)
(***************************************************************************)
C5_ScenarioB ==
  \A i \in Replaced :
    source[i] = ScenarioB =>
      \E t1, t2 \in TempNames : t1 # t2 /\ tree[i] = ScenarioBBuilt(t1, t2)

\* the call site of scenario B has been rewritten
C5_Witness ==
  \E i \in Replaced :
    /\ source[i] = ScenarioB
    /\ tree[i].type = "ConditionalExpression"
    /\ tree[i].consequent.consequent.type = "CallExpression"

(***************************************************************************)
(* C6.  The five conditions of the validator, read off the parsed call.    *)
(***************************************************************************)
RECURSIVE RootOf(_)
\* the root of a body's call/member chain
RootOf(body) ==
  IF body.type = "CallExpression" THEN RootOf(body.callee)
  ELSE IF body.type = "MemberExpression" THEN RootOf(body.object)
  ELSE body

IsFunction(node) == node.type \in {"ArrowFunctionExpression", "FunctionExpression"}

\* condition k (1..5) is violated by the call `call`; a condition on a part
\* the call does not have counts as violated
Violates(call, k) ==
  LET args == call.arguments
  IN  CASE k = 1 -> Len(args) # 2
        [] k = 2 -> Len(args) < 2 \/ args[2].type # "ArrowFunctionExpression"
        [] k = 3 -> \/ Len(args) < 2
                    \/ ~IsFunction(args[2])
                    \/ args[2].body.type = "BlockStatement"
        [] k = 4 -> \/ Len(args) < 2
                    \/ ~IsFunction(args[2])
                    \/ Len(args[2].params) # 1
        [] OTHER -> \/ Len(args) < 2
                    \/ ~IsFunction(args[2])
                    \/ Len(args[2].params) = 0
                    \/ args[2].params[1].type # "Identifier"
                    \/ RootOf(args[2].body).type # "Identifier"
                    \/ args[2].params[1].name # RootOf(args[2].body).name

Violations(call) == {k \in 1..5 : Violates(call, k)}

Lowest(S) == CHOOSE k \in S : \A m \in S : k <= m

MessageOf(k) ==
  CASE k = 1 -> MsgArity
    [] k = 2 -> MsgNotArrow
    [] k = 3 -> MsgBody
    [] k = 4 -> MsgParams
    [] OTHER -> MsgMismatch

IsTrigger(node) ==
  node.type = "CallExpression" /\ node.callee = Identifier("idx")

ThrownAt(i) == error.thrown /\ error.site = i

(***************************************************************************)
(* C6.  checkIdxArguments raises for the lowest-numbered violated          *)
(* condition among (1) not exactly two arguments, (2) second argument not  *)
(* an arrow function, (3) body not a single expression, (4) not exactly    *)
(* one parameter, (5) parameter and chain root not the same identifier,    *)
(* and returns normally only if none is violated.                          *)
(***************************************************************************)
C6_FirstViolationReported ==
  \A i \in 1..Len(source) :
    visits[i].visited /\ IsTrigger(source[i]) =>
      IF Violations(source[i]) = {}
        THEN ~ThrownAt(i) /\ visits[i].replaced
        ELSE /\ ThrownAt(i)
             /\ error.message = MessageOf(Lowest(Violations(source[i])))
             /\ ~visits[i].replaced

\* a block-bodied arrow function of two parameters: conditions 3, 4 and 5
\* are violated and the body error is the one raised
C6_Witness ==
  /\ error.thrown
  /\ Violations(source[error.site]) = {3, 4, 5}
  /\ error.message = MsgBody

(***************************************************************************)
(* C7.  Whenever the visit of a call site raises, that step leaves the     *)
(* tree, the scope's name generator and the scope's bindings as they were, *)
(* and the call node is still the parsed one.                              *)
(***************************************************************************)
C7_NoMutationOnError ==
  [][(~error.thrown /\ error'.thrown) =>
       /\ tree' = tree
       /\ uidsIssued' = uidsIssued
       /\ bindings' = bindings
       /\ tree'[error'.site] = source[error'.site]]_vars

\* an error raised after an earlier site of the unit was rewritten
C7_Witness ==
  /\ error.thrown
  /\ uidsIssued > 0
  /\ tree[error.site] = source[error.site]

(***************************************************************************)
(* C8.  What a call site would be rewritten to were the failing site not   *)
(* there: the failing site mints no name, so the temporaries of site j are *)
(* numbered after those of the transformable sites before it.              *)
(***************************************************************************)
Eligible(node) == IsTrigger(node) /\ Violations(node) = {}

RECURSIVE LinksBefore(_)
\* the links of the transformable sites before site j
LinksBefore(j) ==
  IF j <= 1 THEN 0
  ELSE LinksBefore(j - 1)
         + (IF Eligible(source[j - 1]) THEN Len(SiteLinks(j - 1)) ELSE 0)

RewrittenAlone(j) ==
  GuardChain(SiteBase(j), SiteLinks(j),
             [k \in 1..Len(SiteLinks(j)) |-> generateUid(LinksBefore(j) + k)], 1)

(***************************************************************************)
(* C8 as stated: an error for one call site leaves the rest of the unit    *)
(* unaffected: once the plugin has stopped, every other transformable site *)
(* of the unit, before or after the failing one, is rewritten as it would  *)
(* be without the failing site.                                            *)
(***************************************************************************)
C8_AsStated ==
  error.thrown =>
    \A j \in 1..Len(source) :
      j # error.site /\ Eligible(source[j]) => tree[j] = RewrittenAlone(j)

(***************************************************************************)
(* C8 amended.  An error for one call site ends the traversal of the unit: *)
(* the transformable sites visited before the failing one stay rewritten   *)
(* as they would be without it, and the failing site and every call site   *)
(* after it are left as parsed, the later ones never visited.              *)
(***************************************************************************)
C8_ErrorEndsTraversal ==
  error.thrown =>
    /\ pc = "Thrown"
    /\ \A j \in 1..Len(source) :
         /\ j < error.site /\ Eligible(source[j]) => tree[j] = RewrittenAlone(j)
         /\ j >= error.site => tree[j] = source[j]
         /\ j > error.site => ~visits[j].visited

\* a failing site between a rewritten site and a transformable site that is
\* never visited
C8_Witness ==
  /\ error.thrown
  /\ \E j \in 1..Len(source) :
       j < error.site /\ visits[j].replaced /\ Len(visits[j].uids) > 0
  /\ \E j \in 1..Len(source) :
       j > error.site /\ Eligible(source[j]) /\ tree[j] = source[j]

(***************************************************************************)
(* C9.  The temporaries of a rewritten site and the bindings of the scope. *)
(***************************************************************************)
RECURSIVE AssignedNames(_)
\* the names the assignments of `node` write
AssignedNames(node) ==
  CASE node.type = "AssignmentExpression" ->
         {node.left.name} \cup AssignedNames(node.right)
    [] node.type = "BinaryExpression" ->
         AssignedNames(node.left) \cup AssignedNames(node.right)
    [] node.type = "ConditionalExpression" ->
         AssignedNames(node.test) \cup AssignedNames(node.consequent)
           \cup AssignedNames(node.alternate)
    [] node.type = "MemberExpression" -> AssignedNames(node.object)
    [] node.type = "CallExpression" -> AssignedNames(node.callee)
    [] OTHER -> {}

RECURSIVE GuardAt(_, _)
\* the k-th guard of a built expression, the outermost being the first
GuardAt(node, k) == IF k = 1 THEN node ELSE GuardAt(node.consequent, k - 1)

TimesBound(name) == Cardinality({b \in 1..Len(bindings) : bindings[b] = name})

RECURSIVE UidsUpTo(_)
\* ternary.uids of the rewritten sites 1..i, in order
UidsUpTo(i) ==
  IF i = 0 THEN <<>>
  ELSE UidsUpTo(i - 1) \o (IF visits[i].replaced THEN visits[i].uids ELSE <<>>)

(***************************************************************************)
(* C9.  After a successful transform of a site with N links, ternary.uids  *)
(* has N entries in link order, pairwise distinct, each declared exactly   *)
(* once in the scope; every identifier assigned in the built expression is *)
(* a declared binding; and the scope gets no other binding.                *)
(***************************************************************************)
C9_TemporariesDeclared ==
  /\ \A i \in Replaced :
       /\ Len(visits[i].uids) = Len(SiteLinks(i))
       /\ \A k \in 1..Len(visits[i].uids) :
            GuardAt(tree[i], k).test.left.left = Identifier(visits[i].uids[k])
       /\ Cardinality(UidsOf(i)) = Len(visits[i].uids)
       /\ \A u \in UidsOf(i) : TimesBound(u) = 1
       /\ AssignedNames(tree[i]) = UidsOf(i)
  /\ bindings = UidsUpTo(Len(tree))

\* two rewritten sites with temporaries, all declared
C9_Witness ==
  \E i, j \in Replaced :
    /\ i < j
    /\ Len(visits[i].uids) >= 1
    /\ Len(visits[j].uids) >= 2
    /\ Len(bindings) >= 3

(***************************************************************************)
(* C10.  A call expression whose callee is not the bare identifier idx is  *)
(* never validated, replaced or given temporaries; a unit with no call of  *)
(* the bare identifier idx is left as parsed, with no binding added,       *)
(* whether the traversal is skipped or runs.                               *)
(***************************************************************************)
C10_NonTriggerUntouched ==
  /\ \A i \in 1..Len(source) :
       ~IsTrigger(source[i]) =>
         /\ tree[i] = source[i]
         /\ ~visits[i].replaced
         /\ visits[i].uids = <<>>
         /\ ~ThrownAt(i)
  /\ (\A i \in 1..Len(source) : ~IsTrigger(source[i])) =>
       /\ tree = source
       /\ bindings = <<>>
       /\ uidsIssued = 0
       /\ ~error.thrown

\* a traversal has run over a unit whose calls are obj.idx(...) and foo(a)
C10_Witness ==
  /\ pc = "Done"
  /\ Len(source) >= 2
  /\ \A i \in 1..Len(source) : ~IsTrigger(source[i]) /\ visits[i].visited
  /\ \E i \in 1..Len(source) : source[i].callee.type = "MemberExpression"
  /\ \E i \in 1..Len(source) : Len(source[i].arguments) = 1
  /\ tree = source

====
